---------------------------- MODULE Spec2Model ----------------------------
(***************************************************************************)
(* A model of aegir's frame loop (src/src/main.rs): the entities spawned   *)
(* at startup, the leafwing action state of the player, the mouse-motion   *)
(* event queue with the manual reader of InputState, and the three systems *)
(* registered in main(): update_directional_input, move_player and         *)
(* mouse_motion.                                                           *)
(*                                                                         *)
(* f32 values are fixed-point integers: lengths in 1/1000 of a unit,       *)
(* angles in 1/1000 of a radian, sines and cosines in 1/1000.              *)
(***************************************************************************)
EXTENDS Integers, Sequences, FiniteSets

VARIABLES
    pc,               \* stage of the frame being run: "PreUpdate" or "Update"
    pending,          \* systems of the Update stage that have not run yet
    keys,             \* physical inputs that are down in this frame's sample
    action_state,     \* ActionState<Action> of the player entity
    world,            \* the entities: tags and Transform, in spawn order
    direction,        \* the Direction resource
    input_state,      \* the InputState resource: reader cursor, pitch, yaw
    motion,           \* the Events<MouseMotion> resource
    window,           \* the primary window's size
    prev_keys,        \* history: the previous frame's sample
    frame_start,      \* history: world at the start of the frame
    forward_scalar,   \* history: the scalar of the last update_directional_input run
    applied,          \* history: per event id, how often it reached yaw/pitch
    look_trace,       \* history: pitch/yaw after each event of the last mouse_motion run
    tracker_runs,     \* history: runs of the action state tracker in this frame
    look_start,       \* history: input_state at the start of the frame
    counting,         \* history: whether the edges and steps are being counted
    released_edges,   \* history: just-released edges of Forward and Reverse so far
    steps_applied,    \* history: system runs so far that moved the player
    net_alone         \* history: frames with Forward alone just-released, minus
                      \*          frames with Reverse alone just-released

vars == <<pc, pending, keys, action_state, world, direction, input_state,
          motion, window, prev_keys, frame_start, forward_scalar, applied,
          look_trace, tracker_runs, look_start, counting, released_edges,
          steps_applied, net_alone>>

(***************************************************************************)
(* Bounds of the model.                                                    *)
(***************************************************************************)
\* Mouse-motion events the input feed delivers in one frame, and in all.
MaxPerFrame == 2

MaxEvents == 3

\* Runs of the action state tracker in one frame, where it may run again.
MaxTrackerRuns == 2

\* Steps the player may be away from the origin when a frame starts.
MaxSteps == 2

MaxCameras == 2

\* Just-released edges of Forward and Reverse counted before the feed stops.
MaxEdges == 3

\* Physical inputs the input feed toggles.
NoKeys == {}

ForwardKey == { <<"Keyboard", "W">> }

ForwardReverseKeys == { <<"Keyboard", "W">>, <<"Keyboard", "S">> }

SampledKeys == { <<"Keyboard", "W">>, <<"Keyboard", "S">>,
                 <<"Keyboard", "Left">>, <<"Keyboard", "A">> }

\* Mouse deltas (dx, dy), in pixels, the input feed delivers.
NoDeltas == {}

OneDelta == { <<1, 1>> }

TwoDeltas == { <<1, 1>>, <<0, -100>> }

MouseDeltas == { <<0, 0>>, <<1, 0>>, <<0, 1>>, <<0, -1>>, <<0, 100>>, <<-1, -100>> }

\* Sizes (width, height) of the primary window.
DefaultWindow == { <<1280, 720>> }

WindowSizes == { <<1280, 720>>, <<360, 640>> }

\* Frame times, in milliseconds.
DeltaSeconds == { 0, 16 }

(***************************************************************************)
(* Fixed-point arithmetic.                                                 *)
(***************************************************************************)
Unit == 1000

Abs(x) == IF x < 0 THEN -x ELSE x

\* Division that truncates toward zero, as odd-symmetric as f32 arithmetic.
Div(a, b) == IF a < 0 THEN -((-a) \div b) ELSE a \div b

Min(a, b) == IF a < b THEN a ELSE b

Wrap(x) == ((x + 3142) % 6283) - 3142

SinPos(w) ==
    LET s  == (w * w) \div Unit
        u3 == Unit - s \div 42
        u2 == Unit - (s * u3) \div 20000
        u1 == Unit - (s * u2) \div 6000
    IN (w * u1) \div Unit

Sin(x) == LET w == Wrap(x) IN IF w < 0 THEN -SinPos(-w) ELSE SinPos(w)

Cos(x) ==
    LET w  == Wrap(x)
        s  == (w * w) \div Unit
        t3 == Unit - s \div 56
        t2 == Unit - (s * t3) \div 30000
        t1 == Unit - (s * t2) \div 12000
    IN Unit - (s * t1) \div 2000

VecAdd(u, v) == <<u[1] + v[1], u[2] + v[2], u[3] + v[3]>>

VecScale(u, k) == <<Div(u[1] * k, Unit), Div(u[2] * k, Unit), Div(u[3] * k, Unit)>>

Vec3_ZERO == <<0, 0, 0>>

Vec3_Z == <<0, 0, Unit>>

\* A rotation is kept as the pair of angles it was built from:
\* Quat::from_axis_angle(Vec3::Y, yaw) * Quat::from_axis_angle(Vec3::X, pitch).
from_yaw_pitch(y, p) == [yaw |-> y, pitch |-> p]

Quat_IDENTITY == from_yaw_pitch(0, 0)

\* rotation.mul_vec3(v): v turned about X by pitch, then about Y by yaw.
mul_vec3(rotation, v) ==
    LET cp == Cos(rotation.pitch)
        sp == Sin(rotation.pitch)
        cy == Cos(rotation.yaw)
        sy == Sin(rotation.yaw)
        y1 == Div(v[2] * cp - v[3] * sp, Unit)
        z1 == Div(v[2] * sp + v[3] * cp, Unit)
    IN <<Div(v[1] * cy + z1 * sy, Unit), y1, Div(z1 * cy - v[1] * sy, Unit)>>

\* x.to_radians(), x in 1/100 of a degree, the result in 1/1000 of a radian.
to_radians(x) == Div(x * 1745, 10000)

\* The clamp with the upper limit alone, as x.min(hi).
clamp_upper_only(x, lo, hi) == IF x > hi THEN hi ELSE x

clamp(x, lo, hi) == IF x < lo THEN lo ELSE IF x > hi THEN hi ELSE x

PitchLimit == 1540

(***************************************************************************)
(* Actions and their bindings.                                             *)
(***************************************************************************)
Action == { "Thrust", "Activate", "Weapon1", "Weapon2",
            "Forward", "Reverse", "StrafeLeft", "StrafeRight" }

\* The bindings without that of W.
default_input_map_without_W ==
    { <<"StrafeLeft",  <<"Keyboard", "Left">>>>,
      <<"StrafeLeft",  <<"Keyboard", "A">>>>,
      <<"StrafeRight", <<"Keyboard", "Right">>>>,
      <<"StrafeRight", <<"Keyboard", "D">>>>,
      <<"Thrust",      <<"Keyboard", "LShift">>>>,
      <<"Weapon1",     <<"Mouse", "Left">>>>,
      <<"Weapon2",     <<"Mouse", "Right">>>>,
      <<"Activate",    <<"Keyboard", "Space">>>>,
      <<"Reverse",     <<"Keyboard", "S">>>> }

\* The bindings with a single input, Left, for StrafeLeft.
default_input_map_one_strafe_left ==
    { <<"StrafeLeft",  <<"Keyboard", "Left">>>>,
      <<"StrafeRight", <<"Keyboard", "Right">>>>,
      <<"StrafeRight", <<"Keyboard", "D">>>>,
      <<"Thrust",      <<"Keyboard", "LShift">>>>,
      <<"Weapon1",     <<"Mouse", "Left">>>>,
      <<"Weapon2",     <<"Mouse", "Right">>>>,
      <<"Activate",    <<"Keyboard", "Space">>>>,
      <<"Forward",     <<"Keyboard", "W">>>>,
      <<"Reverse",     <<"Keyboard", "S">>>> }

default_input_map ==
    { <<"StrafeLeft",  <<"Keyboard", "Left">>>>,
      <<"StrafeLeft",  <<"Keyboard", "A">>>>,
      <<"StrafeRight", <<"Keyboard", "Right">>>>,
      <<"StrafeRight", <<"Keyboard", "D">>>>,
      <<"Thrust",      <<"Keyboard", "LShift">>>>,
      <<"Weapon1",     <<"Mouse", "Left">>>>,
      <<"Weapon2",     <<"Mouse", "Right">>>>,
      <<"Activate",    <<"Keyboard", "Space">>>>,
      <<"Forward",     <<"Keyboard", "W">>>>,
      <<"Reverse",     <<"Keyboard", "S">>>> }

(***************************************************************************)
(* The action state kept by InputManagerPlugin::<Action>.                  *)
(***************************************************************************)
ButtonState == { "Released", "JustReleased", "Pressed", "JustPressed" }

is_pressed(s) == s \in { "Pressed", "JustPressed" }

pressed(a) == is_pressed(action_state[a])

just_pressed(a) == action_state[a] = "JustPressed"

just_released(a) == action_state[a] = "JustReleased"

\* InputMap::which_pressed: an action is pressed when any input bound to it is down.
which_pressed(input_map, down) ==
    { a \in Action : \E i \in down : <<a, i>> \in input_map }

\* A tick that keeps the edges.
tick_keeps_edges(state) == state

\* ActionState::tick: the edges of the last frame become steady states.
tick(state) ==
    [a \in Action |->
        CASE state[a] = "JustPressed"  -> "Pressed"
          [] state[a] = "JustReleased" -> "Released"
          [] OTHER                     -> state[a]]

\* ActionState::update: press what is pressed, release the rest.
update(state, pressed_set) ==
    [a \in Action |->
        IF a \in pressed_set
        THEN (IF is_pressed(state[a]) THEN state[a] ELSE "JustPressed")
        ELSE (IF is_pressed(state[a]) THEN "JustReleased" ELSE state[a])]

(***************************************************************************)
(* Events<MouseMotion> and the ManualEventReader of InputState.            *)
(***************************************************************************)
Events_default == [previous |-> <<>>, current |-> <<>>, event_count |-> 0]

Events_send(ev, delta) ==
    [ev EXCEPT !.current = Append(@, [id |-> ev.event_count, delta |-> delta]),
               !.event_count = @ + 1]

RECURSIVE Events_send_all(_, _)
Events_send_all(ev, deltas) ==
    IF deltas = <<>> THEN ev
    ELSE Events_send_all(Events_send(ev, Head(deltas)), Tail(deltas))

\* Events::update: the older buffer is dropped, the newer one becomes the older.
Events_update(ev) == [ev EXCEPT !.previous = ev.current, !.current = <<>>]

\* ManualEventReader::iter: the events not seen yet, oldest first.
reader_iter(last_event_count, ev) ==
    SelectSeq(ev.previous \o ev.current, LAMBDA e : e.id >= last_event_count)

(***************************************************************************)
(* Startup: the entities spawned by the startup systems.                   *)
(***************************************************************************)
spawn_player ==
    [tags |-> {"Player", "ActionState", "Velocity"},
     transform |-> [translation |-> Vec3_ZERO, rotation |-> Quat_IDENTITY]]

\* Transform::from_xyz(0.0, 1.0, 5.0).looking_at(Vec3::ZERO, Vec3::Y): the
\* camera looks down at the origin, turned about X by -atan(1/5).
setup_camera ==
    [tags |-> {"Move", "Camera"},
     transform |-> [translation |-> <<0, 1 * Unit, 5 * Unit>>,
                    rotation |-> from_yaw_pitch(0, -197)]]

setup_light ==
    << [tags |-> {"PointLight"},
        transform |-> [translation |-> <<3 * Unit, 3 * Unit, 3 * Unit>>,
                       rotation |-> Quat_IDENTITY]],
       [tags |-> {"Mesh"},
        transform |-> [translation |-> Vec3_ZERO, rotation |-> Quat_IDENTITY]] >>

Entities == DOMAIN world

With(tag) == { e \in Entities : tag \in world[e].tags }

RECURSIVE Cameras(_)
Cameras(n) == IF n = 0 THEN <<>> ELSE Append(Cameras(n - 1), setup_camera)

StartWith(entities, sizes, count) ==
    /\ pc = "Update"
    /\ pending = {}
    /\ keys = {}
    /\ action_state = [a \in Action |-> "Released"]
    /\ world = entities
    /\ direction = Vec3_ZERO
    /\ input_state = [reader_motion |-> 0, pitch |-> 0, yaw |-> 0]
    /\ motion = Events_default
    /\ window \in { [width |-> s[1], height |-> s[2]] : s \in sizes }
    /\ prev_keys = {}
    /\ frame_start = entities
    /\ forward_scalar = 0
    /\ applied = <<>>
    /\ look_trace = <<>>
    /\ tracker_runs = 0
    /\ look_start = [reader_motion |-> 0, pitch |-> 0, yaw |-> 0]
    /\ counting = count
    /\ released_edges = 0
    /\ steps_applied = 0
    /\ net_alone = 0

InitWith(entities, sizes) == StartWith(entities, sizes, FALSE)

\* main(): the four startup systems have run.
Startup == <<spawn_player, setup_camera>> \o setup_light

Init == InitWith(Startup, DefaultWindow)

\* The same startup with any number of camera entities.
InitWorld ==
    \E n \in 0..MaxCameras :
        InitWith(<<spawn_player>> \o setup_light \o Cameras(n), DefaultWindow)

(***************************************************************************)
(* The frame: First and PreUpdate stages of the host runtime.              *)
(***************************************************************************)
Systems == { "update_directional_input", "move_player", "mouse_motion" }

FrameDone == pc = "Update" /\ pending = {}

RECURSIVE Zeros(_)
Zeros(n) == IF n = 0 THEN <<>> ELSE Append(Zeros(n - 1), 0)

\* The input feed of one frame: a sample of the inputs in K that are down and
\* up to MaxPerFrame mouse-motion events with deltas in D; Events::update_system
\* then swaps the buffers.
InputFeed(K, D) ==
    /\ FrameDone
    /\ \A e \in With("Player") : \A i \in 1..3 :
          Abs(world[e].transform.translation[i]) < MaxSteps * Unit
    /\ counting => released_edges < MaxEdges
    /\ \E ks \in SUBSET K,
          n \in 0..Min(MaxPerFrame, MaxEvents - motion.event_count) :
         \E deltas \in [1..n -> D] :
            /\ keys' = ks
            /\ motion' = Events_update(Events_send_all(motion, deltas))
            /\ applied' = applied \o Zeros(n)
    /\ prev_keys' = keys
    /\ frame_start' = world
    /\ pc' = "PreUpdate"
    /\ tracker_runs' = 0
    /\ look_start' = input_state
    /\ UNCHANGED <<pending, action_state, world, direction, input_state, window,
                   forward_scalar, look_trace, counting, released_edges,
                   steps_applied, net_alone>>

\* The plugin's systems without the tick: the state is updated from the sample
\* with the edges of the frame before still in it.
RunInputManager_without_tick ==
    action_state' = update(action_state, which_pressed(default_input_map, keys))

\* .add_plugin(InputManagerPlugin::<Action>::default()): in PreUpdate the plugin
\* ticks the action state and updates it from the input map and this frame's
\* sample, once per frame, before the systems of the Update stage.
RunInputManager ==
    action_state' = update(tick(action_state), which_pressed(default_input_map, keys))

\* The frame without the plugin: nothing updates the action state.
InputManagerPlugin_not_added ==
    /\ pc = "PreUpdate"
    /\ pc' = "Update"
    /\ pending' = Systems
    /\ tracker_runs' = 0
    /\ UNCHANGED <<keys, action_state, world, direction, input_state, motion,
                   window, prev_keys, frame_start, forward_scalar, applied,
                   look_trace, look_start, counting, released_edges,
                   steps_applied, net_alone>>

\* History of the edges: the just-released edges of Forward and Reverse the
\* tracker raised, and whether one of them alone is just-released.
JustReleasedEdges(state) ==
    Cardinality({ a \in {"Forward", "Reverse"} : state[a] = "JustReleased" })

AloneJustReleased(state) ==
    IF state["Forward"] = "JustReleased" /\ state["Reverse"] # "JustReleased" THEN 1
    ELSE IF state["Reverse"] = "JustReleased" /\ state["Forward"] # "JustReleased"
         THEN -1
    ELSE 0

InputManagerPlugin ==
    /\ pc = "PreUpdate"
    /\ RunInputManager
    /\ tracker_runs' = 1
    /\ pc' = "Update"
    /\ pending' = Systems
    /\ released_edges' = IF counting
                         THEN released_edges + JustReleasedEdges(action_state')
                         ELSE released_edges
    /\ net_alone' = IF counting THEN net_alone + AloneJustReleased(action_state')
                    ELSE net_alone
    /\ UNCHANGED <<keys, world, direction, input_state, motion, window,
                   prev_keys, frame_start, forward_scalar, applied, look_trace,
                   look_start, counting, steps_applied>>

Ready(system) == pc = "Update" /\ system \in pending

Ran(system) == pending' = pending \ {system}

(***************************************************************************)
(* update_directional_input                                                *)
(***************************************************************************)
BoolToInt(b) == IF b THEN 1 ELSE 0

\* The scalar taken from the press edges.
forward_movement_scalar_on_press ==
    BoolToInt(just_pressed("Forward")) - BoolToInt(just_pressed("Reverse"))

\* The scalar taken from the held state.
forward_movement_scalar_while_pressed ==
    BoolToInt(pressed("Forward")) - BoolToInt(pressed("Reverse"))

\* The scalar with Forward taking precedence over Reverse.
forward_movement_scalar_forward_first ==
    IF just_released("Forward") THEN 1
    ELSE IF just_released("Reverse") THEN -1 ELSE 0

forward_movement_scalar ==
    BoolToInt(just_released("Forward")) - BoolToInt(just_released("Reverse"))

\* The step rotated by the rotation of a camera, where there is one.
update_directional_input_transform_camera_facing(t) ==
    LET forward_movement == VecScale(Vec3_Z, forward_movement_scalar * Unit)
        rotation == IF With("Camera") = {} THEN t.rotation
                    ELSE world[CHOOSE c \in With("Camera") : TRUE].transform.rotation
        rotated_forward_movement == mul_vec3(rotation, forward_movement)
    IN [t EXCEPT !.translation = VecAdd(@, rotated_forward_movement)]

update_directional_input_transform(t) ==
    LET forward_movement == VecScale(Vec3_Z, forward_movement_scalar * Unit)
        rotation == t.rotation
        rotated_forward_movement == mul_vec3(rotation, forward_movement)
    IN [t EXCEPT !.translation = VecAdd(@, rotated_forward_movement)]

\* The system as it was when it wrote the Direction resource from the edges.
update_directional_input_writes_direction ==
    /\ Ready("update_directional_input")
    /\ world' = [e \in Entities |->
                    IF {"ActionState", "Player"} \subseteq world[e].tags
                    THEN [world[e] EXCEPT
                            !.transform = update_directional_input_transform(@)]
                    ELSE world[e]]
    /\ forward_scalar' = IF With("Player") # {} THEN forward_movement_scalar
                         ELSE forward_scalar
    /\ Ran("update_directional_input")
    /\ steps_applied' =
          IF counting /\ \E e \in With("Player") :
                            world'[e].transform.translation
                                # world[e].transform.translation
          THEN steps_applied + 1 ELSE steps_applied
    /\ direction' =
          LET horizontal_movement ==
                  VecScale(<<Unit, 0, 0>>,
                           (BoolToInt(just_released("StrafeRight"))
                              - BoolToInt(just_released("StrafeLeft"))) * Unit)
              vertical_movement ==
                  VecScale(<<0, Unit, 0>>,
                           (BoolToInt(just_released("Forward"))
                              - BoolToInt(just_released("Reverse"))) * Unit)
          IN VecAdd(horizontal_movement, vertical_movement)
    /\ UNCHANGED <<pc, keys, action_state, input_state, motion,
                   window, prev_keys, frame_start, applied, look_trace, tracker_runs,
                   look_start, counting, released_edges, net_alone>>

update_directional_input ==
    /\ Ready("update_directional_input")
    /\ world' = [e \in Entities |->
                    IF {"ActionState", "Player"} \subseteq world[e].tags
                    THEN [world[e] EXCEPT
                            !.transform = update_directional_input_transform(@)]
                    ELSE world[e]]
    /\ forward_scalar' = IF With("Player") # {} THEN forward_movement_scalar
                         ELSE forward_scalar
    /\ Ran("update_directional_input")
    /\ steps_applied' =
          IF counting /\ \E e \in With("Player") :
                            world'[e].transform.translation
                                # world[e].transform.translation
          THEN steps_applied + 1 ELSE steps_applied
    /\ UNCHANGED <<pc, keys, action_state, direction, input_state, motion,
                   window, prev_keys, frame_start, applied, look_trace, tracker_runs,
                   look_start, counting, released_edges, net_alone>>

(***************************************************************************)
(* move_player                                                             *)
(***************************************************************************)
move_player_transform(t, delta_seconds) ==
    [t EXCEPT !.translation = VecAdd(@, VecScale(direction, delta_seconds))]

move_player ==
    /\ Ready("move_player")
    /\ \E delta_seconds \in DeltaSeconds :
         world' = [e \in Entities |->
                     IF "Move" \in world[e].tags
                     THEN [world[e] EXCEPT
                             !.transform = move_player_transform(@, delta_seconds)]
                     ELSE world[e]]
    /\ Ran("move_player")
    /\ UNCHANGED <<pc, keys, action_state, direction, input_state, motion,
                   window, prev_keys, frame_start, forward_scalar, applied,
                   look_trace, tracker_runs, look_start, counting, released_edges,
                   steps_applied, net_alone>>

(***************************************************************************)
(* mouse_motion                                                            *)
(***************************************************************************)
\* The query without its With<Camera> filter: every entity with a transform, in
\* an order the host runtime may yield them in.
QueryCameras_every_transform(n) == [i \in 1..n |-> n + 1 - i]

\* The query with the Player marker in the place of the Camera marker.
RECURSIVE QueryCameras_with_player(_)
QueryCameras_with_player(n) ==
    IF n = 0 THEN <<>>
    ELSE IF "Player" \in world[n].tags THEN Append(QueryCameras_with_player(n - 1), n)
    ELSE QueryCameras_with_player(n - 1)

\* The entities the query of mouse_motion yields, in the order it yields them.
RECURSIVE QueryCameras(_)
QueryCameras(n) ==
    IF n = 0 THEN <<>>
    ELSE IF "Camera" \in world[n].tags THEN Append(QueryCameras(n - 1), n)
    ELSE QueryCameras(n - 1)

\* The body of the inner loop without the clamp of the pitch.
mouse_motion_event_no_clamp(s, e, ev) ==
    LET window_scale == Min(window.height, window.width)
        pitch1 == s.input_state.pitch - to_radians(ev.delta[2] * window_scale)
        yaw1   == s.input_state.yaw - to_radians(ev.delta[1] * window_scale)
    IN [input_state |-> [s.input_state EXCEPT !.pitch = pitch1, !.yaw = yaw1],
        world       |-> [s.world EXCEPT ![e].transform.rotation =
                                            from_yaw_pitch(yaw1, pitch1)],
        applied     |-> [s.applied EXCEPT ![ev.id + 1] = @ + 1],
        look_trace  |-> Append(s.look_trace, [pitch |-> pitch1, yaw |-> yaw1])]

\* The body of the inner loop with the two axes of the delta exchanged.
mouse_motion_event_axes_swapped(s, e, ev) ==
    LET window_scale == Min(window.height, window.width)
        pitch1 == s.input_state.pitch - to_radians(ev.delta[1] * window_scale)
        yaw1   == s.input_state.yaw - to_radians(ev.delta[2] * window_scale)
        pitch2 == clamp(pitch1, -PitchLimit, PitchLimit)
    IN [input_state |-> [s.input_state EXCEPT !.pitch = pitch2, !.yaw = yaw1],
        world       |-> [s.world EXCEPT ![e].transform.rotation =
                                            from_yaw_pitch(yaw1, pitch2)],
        applied     |-> [s.applied EXCEPT ![ev.id + 1] = @ + 1],
        look_trace  |-> Append(s.look_trace, [pitch |-> pitch2, yaw |-> yaw1])]

\* The inner loop with the pitch clamped once, after the last event.
RECURSIVE mouse_motion_events_no_clamp(_, _, _)
mouse_motion_events_no_clamp(s, e, evs) ==
    IF evs = <<>> THEN s
    ELSE mouse_motion_events_no_clamp(mouse_motion_event_no_clamp(s, e, Head(evs)),
                                      e, Tail(evs))

mouse_motion_camera_clamp_after_loop(s, e) ==
    LET evs == reader_iter(s.input_state.reader_motion, motion)
        read == [s EXCEPT !.input_state.reader_motion = motion.event_count]
        r == mouse_motion_events_no_clamp(read, e, evs)
        pitch2 == clamp(r.input_state.pitch, -PitchLimit, PitchLimit)
        yaw1 == r.input_state.yaw
    IN IF evs = <<>> THEN r
       ELSE [r EXCEPT !.input_state.pitch = pitch2,
                      !.world[e].transform.rotation = from_yaw_pitch(yaw1, pitch2),
                      !.look_trace[Len(r.look_trace)] =
                          [pitch |-> pitch2, yaw |-> yaw1]]

\* The body of the inner loop, for the camera e and the event ev. The loop state
\* s holds what the system writes: input_state, world, and the two histories.
mouse_motion_event(s, e, ev) ==
    LET window_scale == Min(window.height, window.width)
        pitch1 == s.input_state.pitch - to_radians(ev.delta[2] * window_scale)
        yaw1   == s.input_state.yaw - to_radians(ev.delta[1] * window_scale)
        pitch2 == clamp(pitch1, -PitchLimit, PitchLimit)
    IN [input_state |-> [s.input_state EXCEPT !.pitch = pitch2, !.yaw = yaw1],
        world       |-> [s.world EXCEPT ![e].transform.rotation =
                                            from_yaw_pitch(yaw1, pitch2)],
        applied     |-> [s.applied EXCEPT ![ev.id + 1] = @ + 1],
        look_trace  |-> Append(s.look_trace, [pitch |-> pitch2, yaw |-> yaw1])]

RECURSIVE mouse_motion_events(_, _, _)
mouse_motion_events(s, e, evs) ==
    IF evs = <<>> THEN s
    ELSE mouse_motion_events(mouse_motion_event(s, e, Head(evs)), e, Tail(evs))

\* The inner loop with a reader of its own for each camera, starting where the
\* reader of InputState stood when the system started.
mouse_motion_camera_own_reader(s, e) ==
    LET evs == reader_iter(input_state.reader_motion, motion)
        read == [s EXCEPT !.input_state.reader_motion = motion.event_count]
    IN mouse_motion_events(read, e, evs)

\* The inner loop for the camera e: reader_motion.iter(&motion) yields the events
\* the reader has not seen and moves the reader past them.
mouse_motion_camera(s, e) ==
    LET evs == reader_iter(s.input_state.reader_motion, motion)
        read == [s EXCEPT !.input_state.reader_motion = motion.event_count]
    IN mouse_motion_events(read, e, evs)

RECURSIVE mouse_motion_cameras(_, _)
mouse_motion_cameras(s, cameras) ==
    IF cameras = <<>> THEN s
    ELSE mouse_motion_cameras(mouse_motion_camera(s, Head(cameras)), Tail(cameras))

\* The loops nested the other way round: for each event the look state is
\* updated, then the rotation of each camera is set.
RECURSIVE mouse_motion_set_rotations(_, _, _)
mouse_motion_set_rotations(w, cameras, rotation) ==
    IF cameras = <<>> THEN w
    ELSE mouse_motion_set_rotations(
            [w EXCEPT ![Head(cameras)].transform.rotation = rotation],
            Tail(cameras), rotation)

RECURSIVE mouse_motion_events_outer(_, _, _)
mouse_motion_events_outer(s, evs, cameras) ==
    IF evs = <<>> THEN s
    ELSE LET ev == Head(evs)
             window_scale == Min(window.height, window.width)
             pitch1 == s.input_state.pitch - to_radians(ev.delta[2] * window_scale)
             yaw1   == s.input_state.yaw - to_radians(ev.delta[1] * window_scale)
             pitch2 == clamp(pitch1, -PitchLimit, PitchLimit)
         IN mouse_motion_events_outer(
               [input_state |-> [s.input_state EXCEPT !.pitch = pitch2, !.yaw = yaw1],
                world       |-> mouse_motion_set_rotations(
                                    s.world, cameras, from_yaw_pitch(yaw1, pitch2)),
                applied     |-> [s.applied EXCEPT ![ev.id + 1] = @ + 1],
                look_trace  |-> Append(s.look_trace,
                                       [pitch |-> pitch2, yaw |-> yaw1])],
               Tail(evs), cameras)

mouse_motion_run_events_outer ==
    mouse_motion_events_outer(
        [input_state |-> [input_state EXCEPT !.reader_motion = motion.event_count],
         world |-> world, applied |-> applied, look_trace |-> <<>>],
        reader_iter(input_state.reader_motion, motion),
        QueryCameras(Len(world)))

mouse_motion_run ==
    mouse_motion_cameras([input_state |-> input_state, world |-> world,
                          applied |-> applied, look_trace |-> <<>>],
                         QueryCameras(Len(world)))

mouse_motion ==
    /\ Ready("mouse_motion")
    /\ input_state' = mouse_motion_run.input_state
    /\ world' = mouse_motion_run.world
    /\ applied' = mouse_motion_run.applied
    /\ look_trace' = mouse_motion_run.look_trace
    /\ Ran("mouse_motion")
    /\ UNCHANGED <<pc, keys, action_state, direction, motion, window,
                   prev_keys, frame_start, forward_scalar, tracker_runs,
                   look_start, counting, released_edges, steps_applied, net_alone>>

(***************************************************************************)
(* The program: the frame loop of App::run().                              *)
(***************************************************************************)
Stage ==
    \/ InputManagerPlugin
    \/ update_directional_input
    \/ move_player
    \/ mouse_motion

\* The keyboard is sampled in full; the mouse delivers one kind of event.
Next == InputFeed(SampledKeys, OneDelta) \/ Stage

Spec == Init /\ [][Next]_vars

\* The mouse delivers every kind of event, in a window of any of the sizes; the
\* keyboard is left alone.
NextLook == InputFeed(NoKeys, MouseDeltas) \/ Stage

SpecLook == InitWith(Startup, WindowSizes) /\ [][NextLook]_vars

\* A world with any number of camera entities; W is sampled and the mouse
\* delivers two kinds of event.
NextWorld == InputFeed(ForwardKey, TwoDeltas) \/ Stage

SpecWorld == InitWorld /\ [][NextWorld]_vars

\* The plugin's systems run once more within the Update stage, on the same sample.
InputManagerRerun ==
    /\ pc = "Update"
    /\ tracker_runs \in 1..(MaxTrackerRuns - 1)
    /\ RunInputManager
    /\ tracker_runs' = tracker_runs + 1
    /\ UNCHANGED <<pc, pending, keys, world, direction, input_state, motion, window,
                   prev_keys, frame_start, forward_scalar, applied, look_trace,
                   look_start, counting, released_edges, steps_applied, net_alone>>

\* The keyboard is sampled in full and the mouse is still.
NextTwice == InputFeed(SampledKeys, NoDeltas) \/ Stage \/ InputManagerRerun

SpecTwice == Init /\ [][NextTwice]_vars

\* W and S are sampled, the mouse delivers one kind of event, and the edges and
\* steps are counted; the feed stops after MaxEdges edges.
InitSteps == StartWith(Startup, DefaultWindow, TRUE)

NextSteps == InputFeed(ForwardReverseKeys, OneDelta) \/ Stage

SpecSteps == InitSteps /\ [][NextSteps]_vars

(***************************************************************************)
(* The properties checked.                                                 *)
(***************************************************************************)
Active(a, down) == a \in which_pressed(default_input_map, down)

Done(system) == pc = "Update" /\ system \notin pending

Players == With("Player")

Translation(e) == world[e].transform.translation

StartTranslation(e) == frame_start[e].transform.translation

W == <<"Keyboard", "W">>

S == <<"Keyboard", "S">>

KeyLeft == <<"Keyboard", "Left">>

KeyA == <<"Keyboard", "A">>

\* C1: once the action state of a frame is computed, an action is just-pressed
\* exactly when it is active in this frame's sample and was not in the previous
\* one, just-released exactly when it is not active in this sample and was in
\* the previous one, and never both.
C1_EdgesAreSampleDifferences ==
    pc = "Update" =>
        \A a \in Action :
            /\ just_pressed(a) <=> (Active(a, keys) /\ ~Active(a, prev_keys))
            /\ just_released(a) <=> (~Active(a, keys) /\ Active(a, prev_keys))
            /\ ~(just_pressed(a) /\ just_released(a))

C1_Witness ==
    /\ pc = "Update"
    /\ just_pressed("Forward")
    /\ just_released("StrafeLeft")
    /\ pressed("Reverse") /\ ~just_pressed("Reverse")

\* C2: the stored pitch is within [-1.54, 1.54] after every mouse-motion event
\* that mouse_motion processed, and so in every state.
C2_PitchClamped ==
    /\ -PitchLimit <= input_state.pitch /\ input_state.pitch <= PitchLimit
    /\ \A i \in 1..Len(look_trace) :
          -PitchLimit <= look_trace[i].pitch /\ look_trace[i].pitch <= PitchLimit

C2_Witness ==
    /\ Len(look_trace) = 2
    /\ look_trace[1].pitch = -PitchLimit
    /\ look_trace[2].pitch = PitchLimit

\* C3: in a frame in which neither Forward nor Reverse is just-released, the
\* translation of the player is what it was at the start of the frame, before
\* and after update_directional_input has run.
C3_NoEdgeNoMove ==
    (pc = "Update" /\ ~just_released("Forward") /\ ~just_released("Reverse")) =>
        \A e \in Players : Translation(e) = StartTranslation(e)

C3_Witness ==
    /\ Done("update_directional_input")
    /\ just_pressed("Forward")
    /\ pressed("Reverse") /\ ~just_pressed("Reverse")
    /\ \E e \in Players : Translation(e) = StartTranslation(e) /\ Translation(e)[3] # 0

\* C4: with S up in this sample and the previous one, once
\* update_directional_input has run the player has moved by one forward step,
\* (0, 0, 1), since the start of the frame if W was down in the previous sample
\* and is up in this one, and has not moved otherwise: not in the frame W goes
\* down, not while it is held, not after the frame it went up.
C4_StepOnReleaseOfW ==
    (Done("update_directional_input") /\ S \notin keys /\ S \notin prev_keys) =>
        \A e \in Players :
            Translation(e) =
                IF W \in prev_keys /\ W \notin keys
                THEN VecAdd(StartTranslation(e), <<0, 0, Unit>>)
                ELSE StartTranslation(e)

C4_Witness ==
    /\ Done("update_directional_input")
    /\ S \notin keys /\ S \notin prev_keys
    /\ W \in prev_keys /\ W \notin keys
    /\ \E e \in Players : Translation(e) = <<0, 0, 2 * Unit>>

\* C5: StrafeLeft is current exactly when Left or A is down, and when one of them
\* was down in the previous sample and one is down in this one, StrafeLeft has
\* neither a just-released nor a just-pressed edge.
C5_AnyBoundInput ==
    pc = "Update" =>
        /\ pressed("StrafeLeft") <=> (KeyLeft \in keys \/ KeyA \in keys)
        /\ ( /\ (KeyLeft \in keys \/ KeyA \in keys)
             /\ (KeyLeft \in prev_keys \/ KeyA \in prev_keys) )
           => (~just_released("StrafeLeft") /\ ~just_pressed("StrafeLeft"))

C5_Witness ==
    /\ pc = "Update"
    /\ KeyLeft \in prev_keys /\ KeyA \in prev_keys
    /\ KeyLeft \notin keys /\ KeyA \in keys
    /\ pressed("StrafeLeft")

CameraEntities == With("Camera")

Rotation(e) == world[e].transform.rotation

NoEdge(state) == \A a \in Action : state[a] \notin { "JustPressed", "JustReleased" }

\* C6: the rotation of the camera is a function of the stored yaw and pitch; as
\* startup leaves yaw = 0 and pitch = 0 with the rotation setup_camera gives,
\* the camera has that rotation whenever yaw and pitch are both 0.
C6_OrientationFromYawPitch ==
    (input_state.yaw = 0 /\ input_state.pitch = 0) =>
        \A e \in CameraEntities : Rotation(e) = setup_camera.transform.rotation

\* C7: after a second run of the action state tracker within a frame, on the
\* same sample, no action is just-pressed or just-released, and in every frame
\* the player moves by at most one step.
C7_NoSecondEdge ==
    /\ tracker_runs >= 2 => NoEdge(action_state)
    /\ \A e \in Players :
          /\ Translation(e)[1] = StartTranslation(e)[1]
          /\ Translation(e)[2] = StartTranslation(e)[2]
          /\ Abs(Translation(e)[3] - StartTranslation(e)[3]) <= Unit

C7_Witness ==
    /\ tracker_runs = 2
    /\ W \in prev_keys /\ W \notin keys /\ S \notin prev_keys
    /\ KeyA \in keys /\ KeyA \notin prev_keys
    /\ NoEdge(action_state)
    /\ pending = { "move_player" }
    /\ \E e \in Players : Translation(e) = VecAdd(StartTranslation(e), <<0, 0, Unit>>)

\* C8 as stated: the scalar is +1 if Forward is just-released, else -1 if Reverse
\* is just-released, else 0.
C8_ForwardElseReverse ==
    Done("update_directional_input") =>
        forward_scalar = IF just_released("Forward") THEN 1
                         ELSE IF just_released("Reverse") THEN -1 ELSE 0

\* C8, amended: the scalar is +1 if Forward alone is just-released, -1 if Reverse
\* alone is just-released, and 0 if neither or both are.
C8_OppositeEdgesCancel ==
    Done("update_directional_input") =>
        /\ (just_released("Forward") /\ ~just_released("Reverse")) => forward_scalar = 1
        /\ (just_released("Reverse") /\ ~just_released("Forward")) => forward_scalar = -1
        /\ (just_released("Forward") <=> just_released("Reverse")) => forward_scalar = 0

C8_Witness ==
    /\ Done("update_directional_input")
    /\ just_released("Forward") /\ just_released("Reverse")
    /\ forward_scalar = 0
    /\ \E e \in Players : Translation(e) = <<0, 0, -Unit>>

AppliedOnceAndDrained ==
    /\ \A i \in 1..Len(applied) : applied[i] <= 1
    /\ Done("mouse_motion") =>
          /\ \A i \in 1..Len(applied) : applied[i] = 1
          /\ input_state.reader_motion = motion.event_count

\* C9 as stated: whatever the number of camera entities, no event is applied to
\* yaw and pitch twice, and once mouse_motion has run in a frame every event
\* delivered so far has been applied once and the reader is past all of them.
C9_AppliedOnceAnyCameras == AppliedOnceAndDrained

\* C9, amended: the same, when there is at least one camera entity.
C9_AppliedOnceSomeCamera == CameraEntities # {} => AppliedOnceAndDrained

C9_Witness ==
    /\ Cardinality(CameraEntities) = 2
    /\ Done("mouse_motion")
    /\ Len(applied) = 3
    /\ Len(look_trace) = 2
    /\ \A i \in 1..3 : applied[i] = 1

\* C10: with no camera entity, a run of mouse_motion changes no transform and
\* neither yaw nor pitch, and the Update stage goes on.
C10_NoCameraNoMutation ==
    [][(CameraEntities = {} /\ Ready("mouse_motion") /\ "mouse_motion" \notin pending')
         => /\ world' = world
            /\ input_state'.yaw = input_state.yaw
            /\ input_state'.pitch = input_state.pitch
            /\ pc' = "Update"]_vars

C10_Witness ==
    /\ CameraEntities = {}
    /\ Done("mouse_motion")
    /\ Len(motion.previous) = 1
    /\ Len(applied) = 3
    /\ input_state.yaw = 0 /\ input_state.pitch = 0

LookedBefore == input_state.reader_motion > 0

\* The orientations the Look Controller has produced from yaw/pitch for the
\* cameras, as the frame started and as they are now.
LookOrientations ==
    { frame_start[c].transform.rotation : c \in CameraEntities } \cup
    { Rotation(c) : c \in CameraEntities }

\* C11: the orientation the Look Controller produces from yaw/pitch is the one
\* by which the Motion Resolver rotates the forward step: once the look
\* direction has changed, a step displaces the player by the unit forward vector
\* rotated by that orientation.
C11_StepFollowsLook ==
    (LookedBefore /\ Done("update_directional_input") /\ forward_scalar # 0) =>
        \A e \in Players :
            \E rotation \in LookOrientations :
                Translation(e) =
                    VecAdd(StartTranslation(e),
                           mul_vec3(rotation, VecScale(Vec3_Z, forward_scalar * Unit)))

Untouched(e) == world[e].tags \cap {"Player", "Camera"} = {}

\* C12: over any frames the three systems write only the transforms of the
\* Player and of the camera: the transform of every other entity, the light and
\* the plane, is the one startup gave it.
C12_OnlyPlayerAndCameraWritten ==
    \A e \in Entities : Untouched(e) => world[e].transform = Startup[e].transform

C12_Witness ==
    /\ FrameDone
    /\ \E e \in Entities : "PointLight" \in world[e].tags
    /\ \E e \in Entities : "Mesh" \in world[e].tags
    /\ \E e \in Players : Translation(e) = <<0, 0, 2 * Unit>>
    /\ \E e \in CameraEntities : Rotation(e) = from_yaw_pitch(input_state.yaw, input_state.pitch)
    /\ input_state.reader_motion = MaxEvents

SameSample(a) == Active(a, keys) <=> Active(a, prev_keys)

\* C13: within a frame the player's translation changes by at most one unit
\* step; the steps applied so far never exceed the just-released edges of
\* Forward and Reverse raised so far; and a frame in which Forward and Reverse
\* are sampled as in the frame before, held or released, adds no step.
C13_StepsWithinEdges ==
    /\ \A e \in Players :
          \E k \in {-1, 0, 1} :
              Translation(e) = VecAdd(StartTranslation(e), <<0, 0, k * Unit>>)
    /\ steps_applied <= released_edges
    /\ (pc = "Update" /\ SameSample("Forward") /\ SameSample("Reverse")) =>
          \A e \in Players : Translation(e) = StartTranslation(e)

C13_Witness ==
    /\ FrameDone
    /\ keys = {W}
    /\ prev_keys = {W}
    /\ steps_applied = 2
    /\ released_edges = 2

\* The events mouse_motion read in this frame, and the pitch and yaw it found
\* before the i-th of them.
Looked == Done("mouse_motion") /\ tracker_runs = 1 /\ CameraEntities # {}

FrameEvents == motion.previous

Applied == DOMAIN look_trace \cap DOMAIN FrameEvents

Dx(i) == FrameEvents[i].delta[1]

Dy(i) == FrameEvents[i].delta[2]

PitchBefore(i) == IF i = 1 THEN look_start.pitch ELSE look_trace[i - 1].pitch

YawBefore(i) == IF i = 1 THEN look_start.yaw ELSE look_trace[i - 1].yaw

WindowScale == IF window.width < window.height THEN window.width ELSE window.height

\* C14: an event with dx = 0 and dy >= 0 never raises the pitch, and one whose
\* dy is large drives it to exactly -1.54; at -1.54 any event with dy >= 0
\* leaves the pitch at -1.54, and at +1.54 any event with dy <= 0 leaves it at
\* +1.54.
C14_PitchSaturates ==
    Looked =>
        \A i \in Applied :
            /\ (Dx(i) = 0 /\ Dy(i) >= 0) => look_trace[i].pitch <= PitchBefore(i)
            /\ (Dx(i) = 0 /\ to_radians(Dy(i) * WindowScale) >= 2 * PitchLimit)
                  => look_trace[i].pitch = -PitchLimit
            /\ (PitchBefore(i) = -PitchLimit /\ Dy(i) >= 0)
                  => look_trace[i].pitch = -PitchLimit
            /\ (PitchBefore(i) = PitchLimit /\ Dy(i) <= 0)
                  => look_trace[i].pitch = PitchLimit

C14_Witness ==
    /\ Looked
    /\ Len(look_trace) = 2
    /\ look_start.pitch = PitchLimit
    /\ look_start.reader_motion = 1
    /\ FrameEvents[1].delta = <<0, 100>>
    /\ FrameEvents[2].delta = <<0, 1>>
    /\ look_trace[1].pitch = -PitchLimit
    /\ look_trace[2].pitch = -PitchLimit

\* C15: one event (dx, dy) in a window of smaller dimension m lowers the yaw by
\* dx * 0.01 * m degrees, in radians, whatever dy is, and lowers the pitch,
\* before it is clamped, by dy * 0.01 * m degrees, whatever dx is; dy = 0 leaves
\* the pitch and dx = 0 leaves the yaw as it was.
C15_YawPitchPerEvent ==
    Looked =>
        \A i \in Applied :
            /\ look_trace[i].yaw = YawBefore(i) - to_radians(Dx(i) * WindowScale)
            /\ look_trace[i].pitch =
                  clamp(PitchBefore(i) - to_radians(Dy(i) * WindowScale),
                        -PitchLimit, PitchLimit)
            /\ Dy(i) = 0 => look_trace[i].pitch = PitchBefore(i)
            /\ Dx(i) = 0 => look_trace[i].yaw = YawBefore(i)

C15_Witness ==
    /\ Looked
    /\ window = [width |-> 360, height |-> 640]
    /\ Len(look_trace) = 2
    /\ look_start = [reader_motion |-> 0, pitch |-> 0, yaw |-> 0]
    /\ FrameEvents[1].delta = <<1, 0>>
    /\ FrameEvents[2].delta = <<0, 1>>
    /\ look_trace[1] = [pitch |-> 0, yaw |-> -62]
    /\ look_trace[2] = [pitch |-> -62, yaw |-> -62]

C17_EdgeOneFrameWide ==
    /\ [](pc = "Update" =>
            \A a \in Action :
                SameSample(a) => ~just_pressed(a) /\ ~just_released(a))
    /\ [](pc = "PreUpdate" =>
            \A a \in Action : pressed(a) <=> Active(a, prev_keys))
    /\ [][(pc = "PreUpdate" /\ pc' = "Update") =>
            \A a \in Action :
                /\ ~(action_state[a] = "JustPressed" /\ action_state'[a] = "JustPressed")
                /\ ~(action_state[a] = "JustReleased"
                        /\ action_state'[a] = "JustReleased")]_vars

C17_Witness ==
    /\ pc = "Update"
    /\ keys = {KeyA, W}
    /\ prev_keys = {KeyLeft, W}
    /\ action_state["StrafeLeft"] = "Pressed"
    /\ action_state["Forward"] = "Pressed"
    /\ action_state["Reverse"] = "Released"

\* C18: no system writes the rotation of the Player, which stays the identity;
\* so the player's translation has x = 0 and y = 0, and once
\* update_directional_input has run its z is the number of frames in which
\* Forward alone was just-released minus the number in which Reverse alone was,
\* whatever the mouse has delivered.
C18_PlayerOnZAxis ==
    \A e \in Players :
        /\ Rotation(e) = Quat_IDENTITY
        /\ Translation(e)[1] = 0
        /\ Translation(e)[2] = 0
        /\ Done("update_directional_input") => Translation(e)[3] = net_alone * Unit

C18_Witness ==
    /\ FrameDone
    /\ input_state.reader_motion = MaxEvents
    /\ input_state.yaw # 0
    /\ released_edges = 3
    /\ net_alone = -1
    /\ \E e \in Players : Translation(e) = <<0, 0, -Unit>>

\* What the systems that have run in this frame leave, each applied to the state
\* the frame started in.
LookFromStart ==
    mouse_motion_cameras([input_state |-> look_start, world |-> frame_start,
                          applied |-> applied, look_trace |-> <<>>],
                         QueryCameras(Len(world)))

RotationFromStart(e) ==
    IF "mouse_motion" \in pending THEN frame_start[e].transform.rotation
    ELSE LookFromStart.world[e].transform.rotation

SteppedFromStart(e) ==
    IF "update_directional_input" \notin pending
          /\ {"ActionState", "Player"} \subseteq world[e].tags
    THEN update_directional_input_transform(frame_start[e].transform).translation
    ELSE frame_start[e].transform.translation

MovedFromStart(e, delta_seconds) ==
    IF "move_player" \notin pending /\ "Move" \in world[e].tags
    THEN VecScale(direction, delta_seconds)
    ELSE Vec3_ZERO

\* C19: the three systems run in any order. Whatever the order, the yaw, pitch
\* and event cursor, and the transform of every entity, are what each system
\* that has run leaves when applied to the state the frame started in; so every
\* order ends the frame in the same state.
C19_AnyOrderSameState ==
    pc = "Update" =>
        /\ input_state = IF "mouse_motion" \in pending THEN look_start
                         ELSE LookFromStart.input_state
        /\ \A e \in Entities :
              /\ Rotation(e) = RotationFromStart(e)
              /\ \E delta_seconds \in DeltaSeconds :
                    Translation(e) =
                        VecAdd(SteppedFromStart(e), MovedFromStart(e, delta_seconds))

C19_Witness ==
    /\ pc = "Update"
    /\ pending = {"move_player"}
    /\ input_state # look_start
    /\ forward_scalar = -1
    /\ \E e \in Players : Translation(e) # StartTranslation(e)
    /\ \E e \in CameraEntities : Rotation(e) # frame_start[e].transform.rotation

RECURSIVE PitchFold(_, _)
PitchFold(pitch, evs) ==
    IF evs = <<>> THEN pitch
    ELSE PitchFold(clamp(pitch - to_radians(Head(evs).delta[2] * WindowScale),
                         -PitchLimit, PitchLimit),
                   Tail(evs))

RECURSIVE RadiansSum(_, _)
RadiansSum(evs, axis) ==
    IF evs = <<>> THEN 0
    ELSE to_radians(Head(evs).delta[axis] * WindowScale) + RadiansSum(Tail(evs), axis)

ClampOfSum(pitch, evs) == clamp(pitch - RadiansSum(evs, 2), -PitchLimit, PitchLimit)

\* C20: the pitch is clamped after every single event: the pitch mouse_motion
\* leaves is the fold, in queue order, of clamp(pitch - k * dy, -1.54, 1.54)
\* over the frame's events, every one of them applied; the yaw it leaves is the
\* yaw it found less the sum of the k * dx, which no order changes.
C20_PitchFoldedInOrder ==
    Looked =>
        /\ Len(look_trace) = Len(FrameEvents)
        /\ input_state.pitch = PitchFold(look_start.pitch, FrameEvents)
        /\ input_state.yaw = look_start.yaw - RadiansSum(FrameEvents, 1)

\* The fold differs from the clamp of the summed deltas: down to the limit and
\* up again ends at +1.54, where the sum of the two deltas is zero.
C20_Witness ==
    /\ Looked
    /\ Len(FrameEvents) = 2
    /\ FrameEvents[1].delta = <<0, 100>>
    /\ FrameEvents[2].delta = <<-1, -100>>
    /\ look_start.pitch = 0
    /\ input_state.pitch = PitchLimit
    /\ ClampOfSum(look_start.pitch, FrameEvents) = 0

=============================================================================
